---- MODULE Spec2Model ----
(***************************************************************************)
(* Payment tracker: the hosted store (vendors, transactions,               *)
(* payment_requests, supabase-schema.sql) and the React components that    *)
(* read and write it (BatchPayment, PaymentRequests, the public vendor     *)
(* page, TransactionList, VendorManager, PaymentRequestForm).              *)
(*                                                                         *)
(* Amounts are integers counting quarters of a cent, so that the           *)
(* two-decimal DECIMAL(10, 2) columns of the store round what the client   *)
(* sends, up or down.                                                      *)
(* Remote calls are asynchronous: a call is issued in one step and its     *)
(* response handled in a later one; the store applies the write when the   *)
(* response step is taken.                                                 *)
(***************************************************************************)
EXTENDS Integers, Sequences, FiniteSets, TLC

\* ------------------------------------------------------------- bounds
MaxReq == 2
MaxTx == 2
MaxAmount == 3
MaxManual == 1
MaxManualPair == 2
MaxCalc == 3000

\* ------------------------------------------------------------- domains
VendorIds == {"A", "B"}
VendorNames == {"Alma", "Bo"}
Operators == {"op1", "op2"}
Methods == {"card", "cash", "other"}
PayerInputs == {"", " ", "ann", " bob "}
AmountInputs == -1 .. MaxAmount
Times == {1, 2}
NULL == 0
NewVendorId == "C"
Unknown == "Unknown"
NoDescription == <<>>

VARIABLES
  \* the store
  vendors,            \* vendors table: id -> name
  transactions,       \* transactions table: id -> row
  payment_requests,   \* payment_requests table: id -> row
  nextTx,             \* next transactions.id the store hands out
  nextReq,            \* next payment_requests.id the store hands out
  \* per operator: props and state of BatchPayment / PaymentRequests
  vendorsProp,        \* props.vendors (a snapshot of the vendors table)
  requests,           \* props.requests (a snapshot of payment_requests),
                      \* kept as the rows the components read: the pending ones
  batchItems,
  processing,
  showPaymentMethod,
  manualVendorId,
  manualAmount,
  manualPayerName,
  showAddManual,
  \* per operator: the running processBatch call
  items,              \* the batchItems array the call closed over
  method,             \* its paymentMethod argument
  inflight,           \* remote calls issued and not yet returned
  transactionIds,     \* per insert that has returned, in order:
                      \* transactionData.id, or NULL for a transactionError
  onCompleteCalls,    \* calls of props.onComplete since the call started
  \* the public vendor page
  paymentRequests,    \* its paymentRequests state, per vendor page, kept as
                      \* the rows the page reads: the pending ones
  \* one mounted CalculatorInput and the parent state it is bound to
  currentNumber,      \* a string, as the sequence of its characters
  previousNumber,     \* <<>> for null, <<n>> for the number n
  operator,           \* "" for null
  showExpression,
  isFocused,
  value,              \* props.value: the parent's state set by props.onChange
  reported,           \* the argument of the onChange call of the last step:
                      \* <<>> if it made none, <<n>> if it passed n
  \* one mounted PaymentForm (admin page)
  paymentForm,        \* its state: amount, description (a sequence of
                      \* strings, <<"">> the empty one), paymentMethod,
                      \* loading, error
  paymentInsert,      \* its insert issued and not yet returned: <<>> or <<row>>
  onPaymentAdded,     \* calls of props.onPaymentAdded
  \* one mounted PaymentRequestForm (public vendor page)
  paymentRequestForm, \* its state: amount, payerName, loading, success, error
  requestInsert,      \* its insert issued and not yet returned: <<>> or <<row>>
  onRequestSubmitted, \* calls of props.onRequestSubmitted
  \* the re-fetches of Home ("vendors") and of the public page of vendor A
  \* ("payment_requests")
  announced,          \* per table: its contents when its subscriber last ran
  fetching            \* per table: the responses of the fetches that are out

storeVars == <<vendors, transactions, payment_requests, nextTx, nextReq>>
propVars == <<vendorsProp, requests>>
formVars == <<manualVendorId, manualAmount, manualPayerName, showAddManual>>
batchVars == <<batchItems, processing, showPaymentMethod>>
commitVars == <<items, method, inflight, transactionIds, onCompleteCalls>>
calcVars == <<currentNumber, previousNumber, operator, showExpression,
              isFocused, value, reported>>
entryVars == <<paymentForm, paymentInsert, onPaymentAdded, paymentRequestForm,
               requestInsert, onRequestSubmitted>>
fetchVars == <<announced, fetching>>
vars == <<storeVars, propVars, formVars, batchVars, commitVars, paymentRequests,
          calcVars, entryVars, fetchVars>>

\* ------------------------------------------------------------- helpers
\* String.prototype.trim on the payer names the model types.
Trim(s) == CASE s = " bob " -> "bob"
             [] s = " " -> ""
             [] OTHER -> s

\* DECIMAL(10, 2): the store keeps two decimals, rounding half away from zero.
\* In quarters of a cent: the nearest multiple of 4, a half cent going up.
Round2(a) == IF a >= 0 THEN 4 * ((a + 2) \div 4) ELSE -(4 * ((2 - a) \div 4))

RECURSIVE SumAmounts(_)
SumAmounts(s) == IF s = <<>> THEN 0 ELSE s[1].amount + SumAmounts(Tail(s))

Range(s) == {s[i] : i \in DOMAIN s}

\* ------------------------------------------------------------- initial state
\* Two vendors are registered and the operators' pages have loaded them; no
\* request or transaction has been written yet and nobody has typed anything.
Init ==
  /\ vendors = [v \in VendorIds |-> IF v = "A" THEN "Alma" ELSE "Bo"]
  /\ transactions = <<>>
  /\ payment_requests = <<>>
  /\ nextTx = 1
  /\ nextReq = 1
  /\ vendorsProp = [o \in Operators |-> vendors]
  /\ requests = [o \in Operators |-> <<>>]
  /\ batchItems = [o \in Operators |-> <<>>]
  /\ processing = [o \in Operators |-> FALSE]
  /\ showPaymentMethod = [o \in Operators |-> FALSE]
  /\ manualVendorId = [o \in Operators |-> ""]
  /\ manualAmount = [o \in Operators |-> 0]
  /\ manualPayerName = [o \in Operators |-> ""]
  /\ showAddManual = [o \in Operators |-> FALSE]
  /\ items = [o \in Operators |-> <<>>]
  /\ method = [o \in Operators |-> "card"]
  /\ inflight = [o \in Operators |-> {}]
  /\ transactionIds = [o \in Operators |-> <<>>]
  /\ onCompleteCalls = [o \in Operators |-> 0]
  /\ paymentRequests = [v \in VendorIds |-> <<>>]
  /\ currentNumber = <<>>
  /\ previousNumber = <<>>
  /\ operator = ""
  /\ showExpression = FALSE
  /\ isFocused = FALSE
  /\ value = 0
  /\ reported = <<>>
  /\ paymentForm = [amount |-> "", description |-> <<"">>, paymentMethod |-> "card",
                    loading |-> FALSE, error |-> ""]
  /\ paymentInsert = <<>>
  /\ onPaymentAdded = 0
  /\ paymentRequestForm = [amount |-> 0, payerName |-> "", loading |-> FALSE,
                           success |-> FALSE, error |-> ""]
  /\ requestInsert = <<>>
  /\ onRequestSubmitted = 0
  /\ announced = [vendors |-> vendors, payment_requests |-> <<>>]
  /\ fetching = [vendors |-> {}, payment_requests |-> {}]

\* ------------------------------------------------------------- the store
\* DELETE of one row of a table held as a function id -> row.
Without(table, id) == [k \in DOMAIN table \ {id} |-> table[k]]

\* transactions.vendor_id REFERENCES vendors(id), INSERT ... RETURNING
InsertTransactionOk(row) ==
  /\ row.vendor_id \in DOMAIN vendors
  /\ nextTx <= MaxTx
  /\ transactions' = transactions @@
       (nextTx :> [row EXCEPT !.amount = Round2(row.amount)])
  /\ nextTx' = nextTx + 1

\* The insert into a table whose status column defaults to 'completed'.
InsertRequestOkCompleted(v, a, p) ==
  /\ v \in DOMAIN vendors
  /\ nextReq <= MaxReq
  /\ payment_requests' = payment_requests @@
       (nextReq :> [vendor_id |-> v, amount |-> Round2(a), payer_name |-> p,
                    status |-> "completed", processed_transaction_id |-> NULL])
  /\ nextReq' = nextReq + 1

\* payment_requests: status DEFAULT 'pending', processed_transaction_id
\* defaults to NULL, vendor_id REFERENCES vendors(id)
InsertRequestOk(v, a, p) ==
  /\ v \in DOMAIN vendors
  /\ nextReq <= MaxReq
  /\ payment_requests' = payment_requests @@
       (nextReq :> [vendor_id |-> v, amount |-> Round2(a), payer_name |-> p,
                    status |-> "pending", processed_transaction_id |-> NULL])
  /\ nextReq' = nextReq + 1

\* DELETE FROM transactions: processed_transaction_id ... ON DELETE SET NULL
DeleteTransaction(t) ==
  /\ transactions' = Without(transactions, t)
  /\ payment_requests' =
       [r \in DOMAIN payment_requests |->
          IF payment_requests[r].processed_transaction_id = t
          THEN [payment_requests[r] EXCEPT !.processed_transaction_id = NULL]
          ELSE payment_requests[r]]

\* DELETE FROM vendors with no ON DELETE action on the referencing tables.
DeleteVendorOnly(v) ==
  /\ vendors' = Without(vendors, v)
  /\ UNCHANGED <<transactions, payment_requests>>

\* DELETE FROM vendors: vendor_id ... ON DELETE CASCADE on both tables, and
\* the SET NULL of the requests that referenced a cascaded transaction.
DeleteVendor(v) ==
  LET keptTx == {t \in DOMAIN transactions : transactions[t].vendor_id # v}
      keptReq == {r \in DOMAIN payment_requests :
                    payment_requests[r].vendor_id # v}
  IN /\ vendors' = Without(vendors, v)
     /\ transactions' = [t \in keptTx |-> transactions[t]]
     /\ payment_requests' =
          [r \in keptReq |->
             IF payment_requests[r].processed_transaction_id \in keptTx \cup {NULL}
             THEN payment_requests[r]
             ELSE [payment_requests[r] EXCEPT !.processed_transaction_id = NULL]]

\* ------------------------------------------------------------- BatchPayment
\* requests.filter(r => r.status === 'pending'), applied to a fetched table
PendingRows(table) ==
  [r \in {q \in DOMAIN table : table[q].status = "pending"} |->
     [vendor_id |-> table[r].vendor_id, amount |-> table[r].amount,
      payer_name |-> table[r].payer_name]]

pendingRequests(o) == DOMAIN requests[o]

getVendorName(o, vendorId) ==
  IF vendorId \in DOMAIN vendorsProp[o] THEN vendorsProp[o][vendorId] ELSE Unknown

isRequestInBatch(o, requestId) ==
  \E i \in DOMAIN batchItems[o] : batchItems[o][i].requestId = requestId

\* The batch item toggleRequest builds from a row of props.requests.
RequestItem(requestId, request, vendorName) ==
  [id |-> <<"req", requestId>>, type |-> "request",
   vendorId |-> request.vendor_id, vendorName |-> vendorName,
   amount |-> request.amount, payerName |-> request.payer_name,
   requestId |-> requestId]

\* The batch item addManualPayment builds from the form; requestId is absent.
ManualItem(now, vendorId, vendorName, amount, payerName) ==
  [id |-> <<"manual", now>>, type |-> "manual",
   vendorId |-> vendorId, vendorName |-> vendorName,
   amount |-> amount, payerName |-> Trim(payerName),
   requestId |-> NULL]

\* toggleRequest looking for the request by the items' vendor.
ToggledByVendor(batch, requestId, request, vendorName) ==
  IF \E i \in DOMAIN batch : batch[i].vendorId = request.vendor_id
  THEN SelectSeq(batch, LAMBDA item : item.vendorId # request.vendor_id)
  ELSE Append(batch, RequestItem(requestId, request, vendorName))

\* toggleRequest as a function of the batch it is applied to.
Toggled(batch, requestId, request, vendorName) ==
  IF \E i \in DOMAIN batch : batch[i].requestId = requestId
  THEN SelectSeq(batch, LAMBDA item : item.requestId # requestId)
  ELSE Append(batch, RequestItem(requestId, request, vendorName))

toggleRequest(o, r) ==
  /\ r \in pendingRequests(o)
  /\ batchItems' = [batchItems EXCEPT ![o] =
       Toggled(@, r, requests[o][r], getVendorName(o, requests[o][r].vendor_id))]
  /\ UNCHANGED <<calcVars, entryVars, storeVars, propVars, formVars, processing,
                 showPaymentMethod,
                 commitVars, paymentRequests, fetchVars>>

\* addManualPayment without its first line.
addManualPaymentUnchecked(o, now) ==
  /\ showAddManual[o]
  /\ batchItems' = [batchItems EXCEPT ![o] = Append(@,
       [id |-> <<"manual", now>>, type |-> "manual",
        vendorId |-> manualVendorId[o],
        vendorName |-> IF manualVendorId[o] \in DOMAIN vendorsProp[o]
                       THEN vendorsProp[o][manualVendorId[o]] ELSE "Unknown",
        amount |-> manualAmount[o],
        payerName |-> manualPayerName[o],
        requestId |-> 0])]
  /\ manualVendorId' = [manualVendorId EXCEPT ![o] = ""]
  /\ manualAmount' = [manualAmount EXCEPT ![o] = 0]
  /\ manualPayerName' = [manualPayerName EXCEPT ![o] = ""]
  /\ showAddManual' = [showAddManual EXCEPT ![o] = FALSE]
  /\ UNCHANGED <<calcVars, entryVars, storeVars, propVars, processing, showPaymentMethod,
                 commitVars, paymentRequests, fetchVars>>

ManualCount(batch) == Cardinality({i \in DOMAIN batch : batch[i].type = "manual"})

addManualPayment(o, now) ==
  /\ showAddManual[o]
  /\ IF manualVendorId[o] = "" \/ manualAmount[o] <= 0
        \/ Trim(manualPayerName[o]) = ""
     THEN UNCHANGED <<batchItems, formVars>>
     ELSE /\ batchItems' = [batchItems EXCEPT ![o] = Append(@,
               ManualItem(now, manualVendorId[o],
                          getVendorName(o, manualVendorId[o]),
                          manualAmount[o], manualPayerName[o]))]
          /\ manualVendorId' = [manualVendorId EXCEPT ![o] = ""]
          /\ manualAmount' = [manualAmount EXCEPT ![o] = 0]
          /\ manualPayerName' = [manualPayerName EXCEPT ![o] = ""]
          /\ showAddManual' = [showAddManual EXCEPT ![o] = FALSE]
  /\ UNCHANGED <<calcVars, entryVars, storeVars, propVars, processing, showPaymentMethod,
                 commitVars, paymentRequests, fetchVars>>

removeFromBatch(o, id) ==
  /\ \E i \in DOMAIN batchItems[o] : batchItems[o][i].id = id
  /\ batchItems' = [batchItems EXCEPT ![o] =
       SelectSeq(@, LAMBDA item : item.id # id)]
  /\ UNCHANGED <<calcVars, entryVars, storeVars, propVars, formVars, processing,
                 showPaymentMethod,
                 commitVars, paymentRequests, fetchVars>>

\* totalAmount adding up the request-type items only.
totalAmountOfRequests(o) ==
  SumAmounts(SelectSeq(batchItems[o], LAMBDA item : item.type = "request"))

totalAmount(o) == SumAmounts(batchItems[o])

\* The "Add Manual" button, the modal's close buttons and its three inputs.
setShowAddManual(o, b) ==
  /\ showAddManual[o] # b
  /\ showAddManual' = [showAddManual EXCEPT ![o] = b]
  /\ UNCHANGED <<calcVars, entryVars, storeVars, propVars, manualVendorId, manualAmount,
                 manualPayerName, batchVars, commitVars, paymentRequests,
                 fetchVars>>

setManualVendorId(o, v) ==
  /\ showAddManual[o]
  /\ v \in DOMAIN vendorsProp[o] \cup {""}
  /\ manualVendorId' = [manualVendorId EXCEPT ![o] = v]
  /\ UNCHANGED <<calcVars, entryVars, storeVars, propVars, manualAmount, manualPayerName,
                 showAddManual, batchVars, commitVars, paymentRequests,
                 fetchVars>>

setManualAmount(o, a) ==
  /\ showAddManual[o]
  /\ manualAmount' = [manualAmount EXCEPT ![o] = a]
  /\ UNCHANGED <<calcVars, entryVars, storeVars, propVars, manualVendorId, manualPayerName,
                 showAddManual, batchVars, commitVars, paymentRequests,
                 fetchVars>>

setManualPayerName(o, p) ==
  /\ showAddManual[o]
  /\ manualPayerName' = [manualPayerName EXCEPT ![o] = p]
  /\ UNCHANGED <<calcVars, entryVars, storeVars, propVars, manualVendorId, manualAmount,
                 showAddManual, batchVars, commitVars, paymentRequests,
                 fetchVars>>

\* The "Process Batch" button (rendered while the batch is not empty) and the
\* dialog's Cancel button (disabled while processing).
setShowPaymentMethod(o, b) ==
  /\ IF b THEN batchItems[o] # <<>> ELSE showPaymentMethod[o] /\ ~processing[o]
  /\ showPaymentMethod[o] # b
  /\ showPaymentMethod' = [showPaymentMethod EXCEPT ![o] = b]
  /\ UNCHANGED <<calcVars, entryVars, storeVars, propVars, formVars, batchItems,
                 processing,
                 commitVars, paymentRequests, fetchVars>>

\* ------------------------------------------------------------- processBatch
InsertCall(k) == [kind |-> "insert", item |-> k, tx |-> NULL]
UpdateCall(k, tx) == [kind |-> "update", item |-> k, tx |-> tx]

\* The row processBatch sends for an item.
TransactionOf(item, paymentMethod) ==
  [vendor_id |-> item.vendorId, amount |-> item.amount,
   description |-> <<"Payment from", item.payerName>>,
   payment_method |-> paymentMethod]

\* processBatch without its first line: on an empty batch the loop body never
\* runs and the statements after the loop do.
processBatchWithoutEmptyCheck(o, paymentMethod) ==
  /\ showPaymentMethod[o]
  /\ ~processing[o]
  /\ IF batchItems[o] = <<>>
     THEN /\ showPaymentMethod' = [showPaymentMethod EXCEPT ![o] = FALSE]
          /\ onCompleteCalls' = [onCompleteCalls EXCEPT ![o] = 1]
          /\ UNCHANGED <<processing, batchItems, items, method, inflight,
                         transactionIds>>
     ELSE /\ processing' = [processing EXCEPT ![o] = TRUE]
          /\ items' = [items EXCEPT ![o] = batchItems[o]]
          /\ method' = [method EXCEPT ![o] = paymentMethod]
          /\ inflight' = [inflight EXCEPT ![o] = {InsertCall(1)}]
          /\ transactionIds' = [transactionIds EXCEPT ![o] = <<>>]
          /\ onCompleteCalls' = [onCompleteCalls EXCEPT ![o] = 0]
          /\ UNCHANGED <<batchItems, showPaymentMethod>>
  /\ UNCHANGED <<calcVars, entryVars, storeVars, propVars, formVars, paymentRequests,
                 fetchVars>>

\* processBatch issuing the inserts of all items at once (Promise.all).
processBatchFanOut(o, paymentMethod) ==
  /\ showPaymentMethod[o]
  /\ ~processing[o]
  /\ IF batchItems[o] = <<>>
     THEN UNCHANGED <<processing, commitVars>>
     ELSE /\ processing' = [processing EXCEPT ![o] = TRUE]
          /\ items' = [items EXCEPT ![o] = batchItems[o]]
          /\ method' = [method EXCEPT ![o] = paymentMethod]
          /\ inflight' = [inflight EXCEPT ![o] =
               {InsertCall(k) : k \in DOMAIN batchItems[o]}]
          /\ transactionIds' = [transactionIds EXCEPT ![o] = <<>>]
          /\ onCompleteCalls' = [onCompleteCalls EXCEPT ![o] = 0]
  /\ UNCHANGED <<calcVars, entryVars, storeVars, propVars, formVars, batchItems,
                 showPaymentMethod,
                 paymentRequests, fetchVars>>

\* Entry of processBatch up to its first await.
processBatch(o, paymentMethod) ==
  /\ showPaymentMethod[o]
  /\ ~processing[o]
  /\ IF batchItems[o] = <<>>
     THEN UNCHANGED <<processing, commitVars>>
     ELSE /\ processing' = [processing EXCEPT ![o] = TRUE]
          /\ items' = [items EXCEPT ![o] = batchItems[o]]
          /\ method' = [method EXCEPT ![o] = paymentMethod]
          /\ inflight' = [inflight EXCEPT ![o] = {InsertCall(1)}]
          /\ transactionIds' = [transactionIds EXCEPT ![o] = <<>>]
          /\ onCompleteCalls' = [onCompleteCalls EXCEPT ![o] = 0]
  /\ UNCHANGED <<calcVars, entryVars, storeVars, propVars, formVars, batchItems,
                 showPaymentMethod,
                 paymentRequests, fetchVars>>

\* What follows the loop body of item k once call c has returned: the insert
\* of the next item, or the statements after the loop.
Continue(o, c, k, ids) ==
  IF k < Len(items[o])
  THEN /\ inflight' = [inflight EXCEPT ![o] = (@ \ {c}) \cup {InsertCall(k + 1)}]
       /\ transactionIds' = [transactionIds EXCEPT ![o] = ids]
       /\ UNCHANGED <<batchVars, items, method, onCompleteCalls>>
  ELSE /\ inflight' = [inflight EXCEPT ![o] = @ \ {c}]
       /\ transactionIds' = [transactionIds EXCEPT ![o] = <<>>]
       /\ items' = [items EXCEPT ![o] = <<>>]
       /\ method' = [method EXCEPT ![o] = "card"]
       /\ processing' = [processing EXCEPT ![o] = FALSE]
       /\ batchItems' = [batchItems EXCEPT ![o] = <<>>]
       /\ showPaymentMethod' = [showPaymentMethod EXCEPT ![o] = FALSE]
       /\ onCompleteCalls' = [onCompleteCalls EXCEPT ![o] = @ + 1]

\* The insert of item c.item returns a row.
InsertReturnsData(o, c) ==
  LET item == items[o][c.item]
      row == TransactionOf(item, method[o])
      transactionData == [id |-> nextTx] @@ [row EXCEPT !.amount = Round2(@)]
  IN /\ c \in inflight[o]
     /\ c.kind = "insert"
     /\ InsertTransactionOk(row)
     /\ IF item.type = "request" /\ item.requestId # NULL
        THEN /\ inflight' = [inflight EXCEPT ![o] =
                  (@ \ {c}) \cup {UpdateCall(c.item, transactionData.id)}]
             /\ transactionIds' = [transactionIds EXCEPT ![o] =
                  Append(@, transactionData.id)]
             /\ UNCHANGED <<batchVars, items, method, onCompleteCalls>>
        ELSE Continue(o, c, c.item, Append(transactionIds[o], transactionData.id))
     /\ UNCHANGED <<calcVars, entryVars, vendors, payment_requests, nextReq, propVars,
                    formVars,
                    paymentRequests, fetchVars>>

\* The insert error handled with break: the rest of the batch is skipped.
InsertReturnsErrorBreaks(o, c) ==
  /\ c \in inflight[o]
  /\ c.kind = "insert"
  /\ Continue(o, c, Len(items[o]), Append(transactionIds[o], NULL))
  /\ UNCHANGED <<calcVars, entryVars, storeVars, propVars, formVars, paymentRequests,
                 fetchVars>>

\* The insert error handled with throw: processBatch ends there.
InsertReturnsErrorThrows(o, c) ==
  /\ c \in inflight[o]
  /\ c.kind = "insert"
  /\ inflight' = [inflight EXCEPT ![o] = @ \ {c}]
  /\ UNCHANGED <<calcVars, entryVars, storeVars, propVars, formVars, paymentRequests,
                 batchVars,
                 items, method, transactionIds, onCompleteCalls, fetchVars>>

\* The insert of item c.item returns an error: console.error and continue.
InsertReturnsError(o, c) ==
  /\ c \in inflight[o]
  /\ c.kind = "insert"
  /\ Continue(o, c, c.item, Append(transactionIds[o], NULL))
  /\ UNCHANGED <<calcVars, entryVars, storeVars, propVars, formVars, paymentRequests,
                 fetchVars>>

\* The update with the status left out of it.
CompleteRequestReferenceOnly(requestId, tx) ==
  /\ tx \in DOMAIN transactions
  /\ payment_requests' =
       IF requestId \in DOMAIN payment_requests
       THEN [payment_requests EXCEPT ![requestId] =
              [@ EXCEPT !.processed_transaction_id = tx]]
       ELSE payment_requests

\* The update with the back-reference left out of it.
CompleteRequestStatusOnly(requestId, tx) ==
  /\ tx \in DOMAIN transactions
  /\ payment_requests' =
       IF requestId \in DOMAIN payment_requests
       THEN [payment_requests EXCEPT ![requestId] =
              [@ EXCEPT !.status = "completed"]]
       ELSE payment_requests

\* The update with its .eq('id', ...) filter left out: every row is written.
CompleteRequestEveryRow(requestId, tx) ==
  /\ tx \in DOMAIN transactions
  /\ payment_requests' =
       [r \in DOMAIN payment_requests |->
          [payment_requests[r] EXCEPT !.status = "completed",
                                      !.processed_transaction_id = tx]]

\* UPDATE payment_requests SET status, processed_transaction_id WHERE id = ...
\* The row, if it still exists, takes both values; the reference must exist.
CompleteRequest(requestId, tx) ==
  /\ tx \in DOMAIN transactions
  /\ payment_requests' =
       IF requestId \in DOMAIN payment_requests
       THEN [payment_requests EXCEPT ![requestId] =
              [@ EXCEPT !.status = "completed", !.processed_transaction_id = tx]]
       ELSE payment_requests

\* The update of the request of item c.item returns; its result is not read.
UpdateReturns(o, c) ==
  /\ c \in inflight[o]
  /\ c.kind = "update"
  /\ CompleteRequest(items[o][c.item].requestId, c.tx)
  /\ Continue(o, c, c.item, transactionIds[o])
  /\ UNCHANGED <<calcVars, entryVars, vendors, transactions, nextTx, nextReq, propVars,
                 formVars,
                 paymentRequests, fetchVars>>

\* The update fails in the store or on the way: nothing is written.
UpdateFails(o, c) ==
  /\ c \in inflight[o]
  /\ c.kind = "update"
  /\ Continue(o, c, c.item, transactionIds[o])
  /\ UNCHANGED <<calcVars, entryVars, storeVars, propVars, formVars, paymentRequests,
                 fetchVars>>

\* ------------------------------------------------------------- other components
\* PaymentRequests.handleCancel on a row shown as pending, confirmed, stored.
handleCancel(o, r) ==
  /\ r \in pendingRequests(o)
  /\ payment_requests' =
       IF r \in DOMAIN payment_requests
       THEN [payment_requests EXCEPT ![r] = [@ EXCEPT !.status = "cancelled"]]
       ELSE payment_requests
  /\ UNCHANGED <<calcVars, entryVars, vendors, transactions, nextTx, nextReq, propVars,
                 formVars,
                 batchVars, commitVars, paymentRequests, fetchVars>>

\* The parent's re-fetch of payment_requests, handed down as props.requests.
FetchRequests(o) ==
  /\ requests' = [requests EXCEPT ![o] = PendingRows(payment_requests)]
  /\ requests'[o] # requests[o]
  /\ UNCHANGED <<calcVars, entryVars, storeVars, vendorsProp, formVars, batchVars,
                 commitVars,
                 paymentRequests, fetchVars>>

\* Home.fetchVendors, handed down as props.vendors.
fetchVendors(o) ==
  /\ vendorsProp' = [vendorsProp EXCEPT ![o] = vendors]
  /\ vendorsProp'[o] # vendorsProp[o]
  /\ UNCHANGED <<calcVars, entryVars, storeVars, requests, formVars, batchVars, commitVars,
                 paymentRequests, fetchVars>>

\* VendorPublicView.fetchPaymentRequests: .eq('vendor_id', vendor.id)
fetchPaymentRequests(v) ==
  /\ paymentRequests' = [paymentRequests EXCEPT ![v] = PendingRows(
       [r \in {q \in DOMAIN payment_requests :
                 payment_requests[q].vendor_id = v} |-> payment_requests[r]])]
  /\ paymentRequests'[v] # paymentRequests[v]
  /\ UNCHANGED <<calcVars, entryVars, storeVars, propVars, formVars, batchVars,
                 commitVars, fetchVars>>

\* VendorPublicView.deleteRequest on a row the page shows as pending.
deleteRequest(v, r) ==
  /\ r \in DOMAIN paymentRequests[v]
  /\ r \in DOMAIN payment_requests
  /\ payment_requests' = Without(payment_requests, r)
  /\ UNCHANGED <<calcVars, entryVars, vendors, transactions, nextTx, nextReq, propVars,
                 formVars,
                 batchVars, commitVars, paymentRequests, fetchVars>>

\* PaymentRequestForm.handleSubmit on the page of vendor v, insert stored.
handleSubmitRequest(v, amount, payerName) ==
  /\ amount > 0
  /\ Trim(payerName) # ""
  /\ InsertRequestOk(v, amount, Trim(payerName))
  /\ UNCHANGED <<calcVars, entryVars, vendors, transactions, nextTx, propVars, formVars,
                 batchVars, commitVars, paymentRequests, fetchVars>>

\* TransactionList.handleDelete, confirmed, stored.
handleDeleteTransaction(t) ==
  /\ t \in DOMAIN transactions
  /\ DeleteTransaction(t)
  /\ UNCHANGED <<calcVars, entryVars, vendors, nextTx, nextReq, propVars, formVars,
                 batchVars,
                 commitVars, paymentRequests, fetchVars>>

\* TransactionList.handleUpdate with a valid amount, stored.
handleUpdate(t, editAmount, editDescription, editPaymentMethod) ==
  /\ t \in DOMAIN transactions
  /\ editAmount > 0
  /\ transactions' = [transactions EXCEPT ![t] =
       [@ EXCEPT !.amount = Round2(editAmount),
                 !.description = editDescription,
                 !.payment_method = editPaymentMethod]]
  /\ transactions' # transactions
  /\ UNCHANGED <<calcVars, entryVars, vendors, payment_requests, nextTx, nextReq,
                 propVars, formVars,
                 batchVars, commitVars, paymentRequests, fetchVars>>

\* VendorManager.handleDelete, confirmed, stored.
handleDeleteVendor(v) ==
  /\ v \in DOMAIN vendors
  /\ DeleteVendor(v)
  /\ UNCHANGED <<calcVars, entryVars, nextTx, nextReq, propVars, formVars, batchVars,
                 commitVars,
                 paymentRequests, fetchVars>>

\* VendorManager.handleSubmit while editing vendor v: the name is replaced.
handleSubmitVendorEdit(v, name) ==
  /\ Trim(name) # ""
  /\ v \in DOMAIN vendors
  /\ Trim(name) # vendors[v]
  /\ vendors' = [vendors EXCEPT ![v] = Trim(name)]
  /\ UNCHANGED <<calcVars, entryVars, transactions, payment_requests, nextTx, nextReq,
                 propVars,
                 formVars, batchVars, commitVars, paymentRequests, fetchVars>>

\* VendorManager.handleSubmit with no vendor being edited: a vendor is added.
\* The store hands out the id; the model has one to hand out.
handleSubmitVendorCreate(name) ==
  /\ Trim(name) # ""
  /\ NewVendorId \notin DOMAIN vendors
  /\ vendors' = vendors @@ (NewVendorId :> Trim(name))
  /\ UNCHANGED <<calcVars, entryVars, transactions, payment_requests, nextTx,
                 nextReq, propVars, formVars, batchVars, commitVars,
                 paymentRequests, fetchVars>>

\* ------------------------------------------------------------- re-fetches
\* What the public page of vendor v reads from payment_requests:
\* .eq('vendor_id', vendor.id), kept as the pending rows.
RequestsOf(v) ==
  PendingRows([r \in {q \in DOMAIN payment_requests :
                        payment_requests[q].vendor_id = v} |->
                 payment_requests[r]])

\* Home.fetchVendors is called (on mount, by handleRefresh): the select is
\* issued and the store answers it from its contents.
Home_fetchVendors ==
  /\ vendors \notin fetching.vendors
  /\ fetching' = [fetching EXCEPT !.vendors = @ \cup {vendors}]
  /\ UNCHANGED <<announced, storeVars, propVars, formVars, batchVars,
                 commitVars, paymentRequests, calcVars, entryVars>>

\* The notification of the change of vendors reaches Home's
\* subscription, whose callback calls fetchVendors.
Home_vendorsChanged ==
  /\ announced.vendors # vendors
  /\ announced' = [announced EXCEPT !.vendors = vendors]
  /\ fetching' = [fetching EXCEPT !.vendors = @ \cup {vendors}]
  /\ UNCHANGED <<storeVars, propVars, formVars, batchVars, commitVars,
                 paymentRequests, calcVars, entryVars>>

\* A select of vendors returns: if (data) setVendors(data), handed down to
\* the operator's components as props.vendors.
Home_setVendors(o, data) ==
  /\ data \in fetching.vendors
  /\ fetching' = [fetching EXCEPT !.vendors = @ \ {data}]
  /\ vendorsProp' = [vendorsProp EXCEPT ![o] = data]
  /\ UNCHANGED <<announced, storeVars, requests, formVars, batchVars,
                 commitVars, paymentRequests, calcVars, entryVars>>

\* VendorPublicView.fetchPaymentRequests is called (on mount, after
\* deleteRequest, by onRequestSubmitted).
Page_fetchPaymentRequests(v) ==
  /\ RequestsOf(v) \notin fetching.payment_requests
  /\ fetching' = [fetching EXCEPT !.payment_requests = @ \cup {RequestsOf(v)}]
  /\ UNCHANGED <<announced, storeVars, propVars, formVars, batchVars,
                 commitVars, paymentRequests, calcVars, entryVars>>

\* The notification of the change of the payment requests of vendor
\* v reaches the page's subscription, whose callback calls
\* fetchPaymentRequests.
Page_requestsChanged(v) ==
  /\ announced.payment_requests # RequestsOf(v)
  /\ announced' = [announced EXCEPT !.payment_requests = RequestsOf(v)]
  /\ fetching' = [fetching EXCEPT !.payment_requests = @ \cup {RequestsOf(v)}]
  /\ UNCHANGED <<storeVars, propVars, formVars, batchVars, commitVars,
                 paymentRequests, calcVars, entryVars>>

\* A select of payment_requests returns: if (data) setPaymentRequests(data)
Page_setPaymentRequests(v, data) ==
  /\ data \in fetching.payment_requests
  /\ fetching' = [fetching EXCEPT !.payment_requests = @ \ {data}]
  /\ paymentRequests' = [paymentRequests EXCEPT ![v] = data]
  /\ UNCHANGED <<announced, storeVars, propVars, formVars, batchVars,
                 commitVars, calcVars, entryVars>>

\* ------------------------------------------------------------- PaymentForm
\* parseFloat of the amounts the model types into the number input, in
\* quarters of a cent; <<>> is NaN.
ParseAmount(str) ==
  CASE str = "0" -> <<0>>
    [] str = "-0.01" -> <<-4>>
    [] str = "0.0025" -> <<1>>
    [] str = "0.01" -> <<4>>
    [] OTHER -> <<>>

\* <input type="number" step="0.01" min="0" required>: what the browser lets
\* a form with this input submit.
Submittable(str) ==
  /\ ParseAmount(str) # <<>>
  /\ ParseAmount(str)[1] >= 0
  /\ ParseAmount(str)[1] % 4 = 0

InvalidAmount == "Please enter a valid amount"
FailedToAdd == "Failed to add payment. Please try again."

PaymentForm_setAmount(str) ==
  /\ paymentForm.amount # str
  /\ paymentForm' = [paymentForm EXCEPT !.amount = str]
  /\ UNCHANGED <<paymentInsert, onPaymentAdded, paymentRequestForm,
                 requestInsert, onRequestSubmitted, storeVars, propVars,
                 formVars, batchVars, commitVars, paymentRequests, calcVars,
                 fetchVars>>

PaymentForm_setDescription(str) ==
  /\ paymentForm.description # str
  /\ paymentForm' = [paymentForm EXCEPT !.description = str]
  /\ UNCHANGED <<paymentInsert, onPaymentAdded, paymentRequestForm,
                 requestInsert, onRequestSubmitted, storeVars, propVars,
                 formVars, batchVars, commitVars, paymentRequests, calcVars,
                 fetchVars>>

PaymentForm_setPaymentMethod(m) ==
  /\ paymentForm.paymentMethod # m
  /\ paymentForm' = [paymentForm EXCEPT !.paymentMethod = m]
  /\ UNCHANGED <<paymentInsert, onPaymentAdded, paymentRequestForm,
                 requestInsert, onRequestSubmitted, storeVars, propVars,
                 formVars, batchVars, commitVars, paymentRequests, calcVars,
                 fetchVars>>

\* PaymentForm.handleSubmit for the vendor of its props, to its await.  The
\* submit button is disabled while loading, and the browser submits the
\* form only with a valid number input.
PaymentForm_handleSubmit(vendor) ==
  LET numAmount == ParseAmount(paymentForm.amount)
  IN /\ ~paymentForm.loading
     /\ Submittable(paymentForm.amount)
     /\ IF numAmount = <<>> \/ numAmount[1] <= 0
        THEN /\ paymentForm' = [paymentForm EXCEPT !.error = InvalidAmount]
             /\ paymentForm' # paymentForm
             /\ UNCHANGED paymentInsert
        ELSE /\ paymentForm' = [paymentForm EXCEPT !.loading = TRUE,
                                                  !.error = ""]
             /\ paymentInsert' =
                  <<[vendor_id |-> vendor,
                     amount |-> numAmount[1],
                     description |-> IF paymentForm.description = <<"">>
                                     THEN NoDescription
                                     ELSE paymentForm.description,
                     payment_method |-> paymentForm.paymentMethod]>>
     /\ UNCHANGED <<onPaymentAdded, paymentRequestForm, requestInsert,
                    onRequestSubmitted, storeVars, propVars, formVars,
                    batchVars, commitVars, paymentRequests, calcVars,
                    fetchVars>>

\* The insert returns with an error and the form is reset all the same.
PaymentForm_insertErrorIgnored ==
  /\ paymentInsert # <<>>
  /\ paymentInsert' = <<>>
  /\ paymentForm' = [paymentForm EXCEPT !.loading = FALSE, !.amount = "",
                                        !.description = <<"">>,
                                        !.paymentMethod = "card"]
  /\ onPaymentAdded' = onPaymentAdded + 1
  /\ UNCHANGED <<paymentRequestForm, requestInsert, onRequestSubmitted,
                 storeVars, propVars, formVars, batchVars, commitVars,
                 paymentRequests, calcVars, fetchVars>>

\* The insert returns with insertError: nothing was written.
PaymentForm_insertError ==
  /\ paymentInsert # <<>>
  /\ paymentInsert' = <<>>
  /\ paymentForm' = [paymentForm EXCEPT !.loading = FALSE, !.error = FailedToAdd]
  /\ UNCHANGED <<onPaymentAdded, paymentRequestForm, requestInsert,
                 onRequestSubmitted, storeVars, propVars, formVars, batchVars,
                 commitVars, paymentRequests, calcVars, fetchVars>>

\* The insert returns without error: the row is stored.
PaymentForm_insertOk ==
  /\ paymentInsert # <<>>
  /\ InsertTransactionOk(paymentInsert[1])
  /\ paymentInsert' = <<>>
  /\ paymentForm' = [paymentForm EXCEPT !.loading = FALSE, !.amount = "",
                                        !.description = <<"">>,
                                        !.paymentMethod = "card"]
  /\ onPaymentAdded' = onPaymentAdded + 1
  /\ UNCHANGED <<paymentRequestForm, requestInsert, onRequestSubmitted, vendors,
                 payment_requests, nextReq, propVars, formVars, batchVars,
                 commitVars, paymentRequests, calcVars, fetchVars>>

\* ------------------------------------------------------------- PaymentRequestForm
EnterAmount == "Please enter an amount"
EnterPayer == "Please enter the payer name"
FailedToSubmit == "Failed to submit request. Please try again."

\* onChange of its CalculatorInput: any number the calculator reports.
PaymentRequestForm_setAmount(n) ==
  /\ paymentRequestForm.amount # n
  /\ paymentRequestForm' = [paymentRequestForm EXCEPT !.amount = n]
  /\ UNCHANGED <<paymentForm, paymentInsert, onPaymentAdded, requestInsert,
                 onRequestSubmitted, storeVars, propVars, formVars, batchVars,
                 commitVars, paymentRequests, calcVars, fetchVars>>

PaymentRequestForm_setPayerName(str) ==
  /\ paymentRequestForm.payerName # str
  /\ paymentRequestForm' = [paymentRequestForm EXCEPT !.payerName = str]
  /\ UNCHANGED <<paymentForm, paymentInsert, onPaymentAdded, requestInsert,
                 onRequestSubmitted, storeVars, propVars, formVars, batchVars,
                 commitVars, paymentRequests, calcVars, fetchVars>>

\* setTimeout(() => setSuccess(false), 3000)
PaymentRequestForm_setSuccess ==
  /\ paymentRequestForm.success
  /\ paymentRequestForm' = [paymentRequestForm EXCEPT !.success = FALSE]
  /\ UNCHANGED <<paymentForm, paymentInsert, onPaymentAdded, requestInsert,
                 onRequestSubmitted, storeVars, propVars, formVars, batchVars,
                 commitVars, paymentRequests, calcVars, fetchVars>>

\* PaymentRequestForm.handleSubmit for the vendor of its props, to its
\* await.  The form is not rendered while success is shown and its submit
\* button is disabled while loading.
PaymentRequestForm_handleSubmit(vendor) ==
  /\ ~paymentRequestForm.loading
  /\ ~paymentRequestForm.success
  /\ IF paymentRequestForm.amount <= 0
     THEN /\ paymentRequestForm' =
               [paymentRequestForm EXCEPT !.error = EnterAmount]
          /\ paymentRequestForm' # paymentRequestForm
          /\ UNCHANGED requestInsert
     ELSE IF Trim(paymentRequestForm.payerName) = ""
     THEN /\ paymentRequestForm' =
               [paymentRequestForm EXCEPT !.error = EnterPayer]
          /\ paymentRequestForm' # paymentRequestForm
          /\ UNCHANGED requestInsert
     ELSE /\ paymentRequestForm' =
               [paymentRequestForm EXCEPT !.loading = TRUE, !.error = ""]
          /\ requestInsert' =
               <<[vendor_id |-> vendor,
                  amount |-> paymentRequestForm.amount,
                  payer_name |-> Trim(paymentRequestForm.payerName)]>>
  /\ UNCHANGED <<paymentForm, paymentInsert, onPaymentAdded,
                 onRequestSubmitted, storeVars, propVars, formVars, batchVars,
                 commitVars, paymentRequests, calcVars, fetchVars>>

\* The insert returns with insertError: nothing was written.
PaymentRequestForm_insertError ==
  /\ requestInsert # <<>>
  /\ requestInsert' = <<>>
  /\ paymentRequestForm' = [paymentRequestForm EXCEPT !.loading = FALSE,
                                                      !.error = FailedToSubmit]
  /\ UNCHANGED <<paymentForm, paymentInsert, onPaymentAdded,
                 onRequestSubmitted, storeVars, propVars, formVars, batchVars,
                 commitVars, paymentRequests, calcVars, fetchVars>>

\* The insert returns without error: the row is stored.
PaymentRequestForm_insertOk ==
  /\ requestInsert # <<>>
  /\ InsertRequestOk(requestInsert[1].vendor_id, requestInsert[1].amount,
                     requestInsert[1].payer_name)
  /\ requestInsert' = <<>>
  /\ paymentRequestForm' = [paymentRequestForm EXCEPT !.loading = FALSE,
                                                      !.success = TRUE,
                                                      !.amount = 0,
                                                      !.payerName = ""]
  /\ onRequestSubmitted' = onRequestSubmitted + 1
  /\ UNCHANGED <<paymentForm, paymentInsert, onPaymentAdded, vendors,
                 transactions, nextTx, propVars, formVars, batchVars,
                 commitVars, paymentRequests, calcVars, fetchVars>>

\* ------------------------------------------------------------- CalculatorInput
\* Numbers are integers counting hundredths; a step whose result is not a
\* whole number of halves, or exceeds MaxCalc, is left out.  Strings are
\* sequences of one-character strings.
DigitChars == <<"0", "1", "2", "3", "4", "5", "6", "7", "8", "9">>
IsDigit(c) == \E d \in DOMAIN DigitChars : DigitChars[d] = c
DigitValue(c) == (CHOOSE d \in DOMAIN DigitChars : DigitChars[d] = c) - 1
Operator == {"+", "-", "*", "/"}
Abs(n) == IF n < 0 THEN -n ELSE n

\* inputValue.replace(/[^0-9.]/g, '')
Sanitized(inputValue) == SelectSeq(inputValue, LAMBDA c : IsDigit(c) \/ c = ".")

\* parts.length > 2 ? parts[0] + '.' + parts.slice(1).join('') : sanitized
CleanValue(inputValue) ==
  LET sanitized == Sanitized(inputValue)
      dots == {i \in DOMAIN sanitized : sanitized[i] = "."}
  IN IF Cardinality(dots) > 1
     THEN LET first == CHOOSE i \in dots : \A j \in dots : i <= j
          IN SubSeq(sanitized, 1, first)
               \o SelectSeq(SubSeq(sanitized, first + 1, Len(sanitized)),
                            LAMBDA c : c # ".")
     ELSE sanitized

\* The number of digits a string starts with.
RECURSIVE LeadingDigits(_)
LeadingDigits(str) ==
  IF str # <<>> /\ IsDigit(Head(str)) THEN 1 + LeadingDigits(Tail(str)) ELSE 0

\* The natural number a string of digits writes (0 for the empty string).
RECURSIVE DigitsValue(_)
DigitsValue(digits) ==
  IF digits = <<>> THEN 0
  ELSE 10 * DigitsValue(SubSeq(digits, 1, Len(digits) - 1))
         + DigitValue(digits[Len(digits)])

\* parseFloat: an optional sign, digits, optionally a point and digits; the
\* longest such prefix is read, and none is NaN, here <<>>.  The fraction is
\* read to two digits.
ParseFloat(str) ==
  LET negative == str # <<>> /\ Head(str) = "-"
      body == IF negative THEN Tail(str) ELSE str
      intLen == LeadingDigits(body)
      afterInt == SubSeq(body, intLen + 1, Len(body))
      fraction == IF afterInt # <<>> /\ Head(afterInt) = "."
                  THEN SubSeq(afterInt, 2, 1 + LeadingDigits(Tail(afterInt)))
                  ELSE <<>>
      hundredths == IF fraction = <<>> THEN 0
                    ELSE IF Len(fraction) = 1 THEN 10 * DigitValue(fraction[1])
                    ELSE 10 * DigitValue(fraction[1]) + DigitValue(fraction[2])
      magnitude == 100 * DigitsValue(SubSeq(body, 1, intLen)) + hundredths
  IN IF intLen = 0 /\ fraction = <<>> THEN <<>>
     ELSE <<IF negative THEN -magnitude ELSE magnitude>>

\* parseFloat(str) || 0
ParseOrZero(str) == IF ParseFloat(str) = <<>> THEN 0 ELSE ParseFloat(str)[1]

RECURSIVE NatToString(_)
NatToString(n) ==
  IF n < 10 THEN <<DigitChars[n + 1]>>
  ELSE Append(NatToString(n \div 10), DigitChars[(n % 10) + 1])

\* Number.prototype.toString: no trailing zeros, no point for an integer.
NumberToString(n) ==
  LET whole == NatToString(Abs(n) \div 100)
      cents == Abs(n) % 100
      fraction == IF cents = 0 THEN <<>>
                  ELSE IF cents % 10 = 0 THEN <<".", DigitChars[(cents \div 10) + 1]>>
                  ELSE <<".", DigitChars[(cents \div 10) + 1],
                         DigitChars[(cents % 10) + 1]>>
  IN (IF n < 0 THEN <<"-">> ELSE <<>>) \o whole \o fraction

\* Number.prototype.toFixed(2)
ToFixed2(n) ==
  (IF n < 0 THEN <<"-">> ELSE <<>>)
    \o NatToString(Abs(n) \div 100)
    \o <<".", DigitChars[((Abs(n) % 100) \div 10) + 1],
              DigitChars[(Abs(n) % 10) + 1]>>

\* The quotient of two integers when it is one.
Quotient(a, b) ==
  IF (a < 0) = (b < 0) THEN Abs(a) \div Abs(b) ELSE -(Abs(a) \div Abs(b))

\* calculate dividing by any number, zero included: the quotient by zero is
\* not a finite number, here the number beyond every number of the model.
calculateUnguarded(num1, op, num2) ==
  CASE op = "+" -> num1 + num2
    [] op = "-" -> num1 - num2
    [] op = "*" -> Quotient(num1 * num2, 100)
    [] op = "/" -> IF num2 # 0 THEN Quotient(100 * num1, num2) ELSE MaxCalc + 1
    [] OTHER -> num2

calculate(num1, op, num2) ==
  CASE op = "+" -> num1 + num2
    [] op = "-" -> num1 - num2
    [] op = "*" -> Quotient(num1 * num2, 100)
    [] op = "/" -> IF num2 # 0 THEN Quotient(100 * num1, num2) ELSE 0
    [] OTHER -> num2

\* The results the model has a number for.
Representable(num1, op, num2) ==
  IF op = "/" /\ num2 = 0 THEN TRUE
  ELSE /\ op = "*" => (Abs(num1) * Abs(num2)) % 100 = 0
       /\ op = "/" => (100 * Abs(num1)) % Abs(num2) = 0
       /\ (2 * Abs(calculate(num1, op, num2))) % 100 = 0
       /\ Abs(calculate(num1, op, num2)) <= MaxCalc

\* useEffect [value, currentNumber, operator], run after a render: the new
\* currentNumber.
Initialized(number, op, val) ==
  IF val > 0 /\ number = <<>> /\ op = "" THEN NumberToString(val) ELSE number

\* The parent mounts the component anew, keeping the value it is bound to.
mount ==
  /\ currentNumber' = Initialized(<<>>, "", value)
  /\ previousNumber' = <<>>
  /\ operator' = ""
  /\ showExpression' = FALSE
  /\ isFocused' = FALSE
  /\ reported' = <<>>
  /\ UNCHANGED <<value, storeVars, entryVars, propVars, formVars, batchVars, commitVars,
                 paymentRequests, fetchVars>>

\* The parent sets the state the value prop is bound to (setAmount(0) after
\* a submission).
setValue(val) ==
  /\ value' = val
  /\ value' # value
  /\ currentNumber' = Initialized(currentNumber, operator, val)
  /\ reported' = <<>>
  /\ UNCHANGED <<previousNumber, operator, showExpression, isFocused,
                 storeVars, propVars, formVars, batchVars, commitVars,
                 paymentRequests, entryVars, fetchVars>>

\* onFocus and onBlur of the input.
setIsFocused(b) ==
  /\ isFocused # b
  /\ isFocused' = b
  /\ reported' = <<>>
  /\ UNCHANGED <<currentNumber, previousNumber, operator, showExpression,
                 value, storeVars, propVars, formVars, batchVars, commitVars,
                 paymentRequests, entryVars, fetchVars>>

\* The operator, = and C buttons are rendered.
ButtonsShown == isFocused \/ currentNumber # <<>> \/ operator # ""

\* handleNumberInput keeping the typed number to itself.
handleNumberInputSilent(inputValue) ==
  /\ inputValue # currentNumber
  /\ showExpression' = (operator # "" /\ previousNumber # <<>>)
  /\ reported' = <<>>
  /\ currentNumber' = Initialized(CleanValue(inputValue), operator, value)
  /\ UNCHANGED <<value, previousNumber, operator, isFocused, storeVars, entryVars,
                 propVars, formVars, batchVars, commitVars, paymentRequests,
                 fetchVars>>

handleNumberInput(inputValue) ==
  LET cleanValue == CleanValue(inputValue)
      currentNum == ParseOrZero(cleanValue)
      pending == operator # "" /\ previousNumber # <<>>
      result == IF pending
                THEN calculate(previousNumber[1], operator, currentNum)
                ELSE currentNum
  IN /\ inputValue # currentNumber
     /\ pending => Representable(previousNumber[1], operator, currentNum)
     /\ showExpression' = pending
     /\ value' = result
     /\ reported' = <<result>>
     /\ currentNumber' = Initialized(cleanValue, operator, result)
     /\ UNCHANGED <<previousNumber, operator, isFocused, storeVars, entryVars, propVars,
                    formVars, batchVars, commitVars, paymentRequests,
                    fetchVars>>

\* handleOperator always starting a new expression from the typed number.
handleOperatorRestarts(op) ==
  /\ ButtonsShown
  /\ previousNumber' = <<ParseOrZero(currentNumber)>>
  /\ reported' = <<>>
  /\ currentNumber' = <<>>
  /\ operator' = op
  /\ showExpression' = FALSE
  /\ isFocused' = TRUE
  /\ UNCHANGED <<value, storeVars, entryVars, propVars, formVars, batchVars, commitVars,
                 paymentRequests, fetchVars>>

handleOperator(op) ==
  LET currentNum == ParseOrZero(currentNumber)
  IN /\ ButtonsShown
     /\ IF operator # "" /\ previousNumber # <<>> /\ currentNumber # <<>>
        THEN LET result == calculate(previousNumber[1], operator, currentNum)
             IN /\ Representable(previousNumber[1], operator, currentNum)
                /\ previousNumber' = <<result>>
                /\ value' = result
                /\ reported' = <<result>>
        ELSE /\ previousNumber' = <<currentNum>>
             /\ reported' = <<>>
             /\ UNCHANGED value
     /\ currentNumber' = <<>>
     /\ operator' = op
     /\ showExpression' = FALSE
     /\ isFocused' = TRUE
     /\ UNCHANGED <<storeVars, entryVars, propVars, formVars, batchVars, commitVars,
                    paymentRequests, fetchVars>>

\* handleEquals reporting the current number when no operator is pending.
handleEqualsAlways ==
  /\ ButtonsShown
  /\ operator = ""
  /\ previousNumber = <<>>
  /\ value' = ParseOrZero(currentNumber)
  /\ reported' = <<ParseOrZero(currentNumber)>>
  /\ isFocused' = TRUE
  /\ UNCHANGED <<currentNumber, previousNumber, operator, showExpression,
                 storeVars, propVars, formVars, batchVars, commitVars,
                 paymentRequests, entryVars, fetchVars>>

handleEquals ==
  /\ ButtonsShown
  /\ IF operator # "" /\ previousNumber # <<>>
     THEN LET currentNum == ParseOrZero(currentNumber)
              result == calculate(previousNumber[1], operator, currentNum)
          IN /\ Representable(previousNumber[1], operator, currentNum)
             /\ currentNumber' = NumberToString(result)
             /\ previousNumber' = <<>>
             /\ operator' = ""
             /\ showExpression' = FALSE
             /\ value' = result
             /\ reported' = <<result>>
     ELSE /\ reported' = <<>>
          /\ UNCHANGED <<currentNumber, previousNumber, operator,
                         showExpression, value>>
  /\ isFocused' = TRUE
  /\ UNCHANGED <<storeVars, entryVars, propVars, formVars, batchVars, commitVars,
                 paymentRequests, fetchVars>>

\* handleClear without its onChange(0).
handleClearUnreported ==
  /\ ButtonsShown
  /\ currentNumber' = Initialized(<<>>, "", value)
  /\ previousNumber' = <<>>
  /\ operator' = ""
  /\ showExpression' = FALSE
  /\ reported' = <<>>
  /\ isFocused' = TRUE
  /\ UNCHANGED <<value, storeVars, entryVars, propVars, formVars, batchVars, commitVars,
                 paymentRequests, fetchVars>>

handleClear ==
  /\ ButtonsShown
  /\ currentNumber' = Initialized(<<>>, "", 0)
  /\ previousNumber' = <<>>
  /\ operator' = ""
  /\ showExpression' = FALSE
  /\ value' = 0
  /\ reported' = <<0>>
  /\ isFocused' = TRUE
  /\ UNCHANGED <<storeVars, entryVars, propVars, formVars, batchVars, commitVars,
                 paymentRequests, fetchVars>>

\* getExpressionDisplay as rendered: <<>> when no expression is shown.
expression ==
  IF showExpression /\ operator # "" /\ previousNumber # <<>>
  THEN <<[expression |-> <<NumberToString(previousNumber[1]), operator,
                           IF currentNumber = <<>> THEN <<"0">>
                           ELSE currentNumber>>,
          result |-> ToFixed2(calculate(previousNumber[1], operator,
                                        ParseOrZero(currentNumber)))]>>
  ELSE <<>>

\* The number in bold in the display area: the result of the expression
\* line if there is one, else the current number.
displayed == IF expression # <<>> THEN expression[1].result ELSE currentNumber

\* ------------------------------------------------------------- specifications
BatchEdit(o) ==
  \/ \E r \in 1 .. MaxReq : toggleRequest(o, r)
  \/ \E id \in {batchItems[o][i].id : i \in DOMAIN batchItems[o]} :
       removeFromBatch(o, id)
  \/ \E b \in BOOLEAN : setShowPaymentMethod(o, b)

\* The manual form, filled in and sent while the batch holds fewer than cap
\* manual items.
ManualEntryCapped(o, cap, shown, vendorIds, amounts, payers, times) ==
  \/ \E b \in shown : setShowAddManual(o, b)
  \/ \E v \in vendorIds : setManualVendorId(o, v)
  \/ \E a \in amounts : setManualAmount(o, a)
  \/ \E p \in payers : setManualPayerName(o, p)
  \/ \E now \in times :
       ManualCount(batchItems[o]) < cap /\ addManualPayment(o, now)

ManualEntry(o, shown, vendorIds, amounts, payers, times) ==
  ManualEntryCapped(o, MaxManual, shown, vendorIds, amounts, payers, times)

Commit(o, methods) ==
  \/ \E m \in methods : processBatch(o, m)
  \/ \E c \in inflight[o] : InsertReturnsData(o, c)
  \/ \E c \in inflight[o] : InsertReturnsError(o, c)
  \/ \E c \in inflight[o] : UpdateReturns(o, c)
  \/ \E c \in inflight[o] : UpdateFails(o, c)

\* One operator, the payers of vendor A and the store administration, all
\* interleaved; every request is for the same amount and payer.
Next ==
  \/ BatchEdit("op1")
  \/ Commit("op1", {"cash"})
  \/ FetchRequests("op1")
  \/ \E r \in 1 .. MaxReq : handleCancel("op1", r)
  \/ fetchPaymentRequests("A")
  \/ \E r \in 1 .. MaxReq : deleteRequest("A", r)
  \/ handleSubmitRequest("A", 2, "ann")
  \/ \E t \in 1 .. MaxTx : handleDeleteTransaction(t)
  \/ \E t \in 1 .. MaxTx : handleUpdate(t, 3, NoDescription, "card")
  \/ handleDeleteVendor("A")

Spec == Init /\ [][Next]_vars

\* One operator building and committing batches of requests (of vendor A,
\* submitted for three quarters of a cent) and a manual entry (for vendor B,
\* for a quarter of a cent), with every outcome of every remote write.
CommitNext ==
  \/ BatchEdit("op1")
  \/ ManualEntry("op1", {TRUE}, {"B"}, {1}, {" bob "}, {1})
  \/ Commit("op1", {"cash"})
  \/ FetchRequests("op1")
  \/ handleSubmitRequest("A", 3, "ann")

CommitSpec == Init /\ [][CommitNext]_vars

\* The same with one request, and every call that is out returning in the
\* end, with data or with an error.
Returns(o) ==
  \E c \in inflight[o] :
    \/ InsertReturnsData(o, c)
    \/ InsertReturnsError(o, c)
    \/ UpdateReturns(o, c)
    \/ UpdateFails(o, c)

LiveNext ==
  \/ BatchEdit("op1")
  \/ ManualEntry("op1", {TRUE}, {"B"}, {1}, {" bob "}, {1})
  \/ Commit("op1", {"cash"})
  \/ FetchRequests("op1")
  \/ nextReq = 1 /\ handleSubmitRequest("A", 3, "ann")

LiveSpec == Init /\ [][LiveNext]_vars /\ WF_vars(Returns("op1"))

\* One operator editing a batch of requests of vendor A and a manual entry
\* for vendor B, while requests come in, vendor A is renamed, and the parent
\* refreshes the props.
ToggleNext ==
  \/ BatchEdit("op1")
  \/ ManualEntry("op1", {TRUE}, {"B"}, {2}, {"ann"}, Times)
  \/ FetchRequests("op1")
  \/ fetchVendors("op1")
  \/ handleSubmitRequest("A", 2, "ann")
  \/ \E name \in VendorNames : handleSubmitVendorEdit("A", name)

ToggleSpec == Init /\ [][ToggleNext]_vars

\* One operator editing a batch of requests of vendor A and a manual entry,
\* with any vendor, amount and payer name put into the manual form.
FormNext ==
  \/ BatchEdit("op1")
  \/ ManualEntry("op1", BOOLEAN, VendorIds \cup {""}, AmountInputs,
                 PayerInputs, Times)
  \/ FetchRequests("op1")
  \/ handleSubmitRequest("A", 3, "ann")

FormSpec == Init /\ [][FormNext]_vars

\* One operator editing a batch of requests of vendor A and up to two manual
\* entries for vendor B, each made at whatever time Date.now() returns.
RemoveNext ==
  \/ BatchEdit("op1")
  \/ ManualEntryCapped("op1", MaxManualPair, {TRUE}, {"B"}, {1, 2}, {"ann"},
                       Times)
  \/ FetchRequests("op1")
  \/ handleSubmitRequest("A", 3, "ann")

RemoveSpec == Init /\ [][RemoveNext]_vars

\* One operator committing batches of a request of vendor A and a manual
\* entry for vendor B, while vendors and transactions are deleted.
StoreNext ==
  \/ BatchEdit("op1")
  \/ ManualEntry("op1", {TRUE}, {"B"}, {1}, {" bob "}, {1})
  \/ Commit("op1", {"cash"})
  \/ FetchRequests("op1")
  \/ nextReq = 1 /\ handleSubmitRequest("A", 3, "ann")
  \/ \E t \in 1 .. MaxTx : handleDeleteTransaction(t)
  \/ \E v \in VendorIds : handleDeleteVendor(v)

StoreSpec == Init /\ [][StoreNext]_vars

\* Two operators selecting and committing a request of vendor A, request r
\* being submitted for r cents, with every outcome of every remote write,
\* while operator 1 cancels requests.
PairNext ==
  \/ \E o \in Operators :
       \/ \E r \in 1 .. MaxReq : toggleRequest(o, r)
       \/ setShowPaymentMethod(o, TRUE)
       \/ Commit(o, {"cash"})
       \/ FetchRequests(o)
  \/ \E r \in 1 .. MaxReq : handleCancel("op1", r)
  \/ nextReq = 1 /\ handleSubmitRequest("A", 4 * nextReq, "ann")

PairSpec == Init /\ [][PairNext]_vars

\* What can be put into the calculator's input: typed, pasted or edited.
InputValues ==
  {<<>>, <<"0">>, <<"2">>, <<"5">>, <<"1", "0">>, <<"1", ".", "5">>, <<".">>,
   <<"a">>, <<"1", ".", "5", ".">>, <<"2", "x">>}

\* One CalculatorInput and its parent.
CalcNext ==
  \/ \E inputValue \in InputValues : handleNumberInput(inputValue)
  \/ \E op \in Operator : handleOperator(op)
  \/ handleEquals
  \/ handleClear
  \/ \E b \in BOOLEAN : setIsFocused(b)
  \/ mount
  \/ setValue(0)

CalcSpec == Init /\ [][CalcNext]_vars

\* One CalculatorInput receiving inputs, its parent only storing what is
\* reported.
KeysNext ==
  \/ \E inputValue \in InputValues : handleNumberInput(inputValue)
  \/ \E op \in Operator : handleOperator(op)
  \/ handleEquals
  \/ handleClear
  \/ \E b \in BOOLEAN : setIsFocused(b)

KeysSpec == Init /\ [][KeysNext]_vars

\* What is typed into the number inputs of the payment form and of the
\* transaction edit dialog.
AmountStrings == {"", "0", "-0.01", "0.0025", "0.01"}

\* Every writer of the store with what its user can enter: the payment
\* form and the payment-request form of vendor A, the edit dialog of the
\* transaction list, the manual batch entry with a commit, the vendor form;
\* every remote write succeeds.
WriteNext ==
  \/ \E str \in {"0", "0.01"} : PaymentForm_setAmount(str)
  \/ PaymentForm_handleSubmit("A")
  \/ PaymentForm_insertOk
  \/ PaymentRequestForm_setAmount(1)
  \/ PaymentRequestForm_setPayerName("ann")
  \/ PaymentRequestForm_handleSubmit("A")
  \/ PaymentRequestForm_insertOk
  \/ \E t \in 1 .. MaxTx, str \in AmountStrings :
       /\ ParseAmount(str) # <<>>
       /\ handleUpdate(t, ParseAmount(str)[1], NoDescription, "card")
  \/ ManualEntry("op1", {TRUE}, {"B"}, {1}, {"ann"}, {1})
  \/ setShowPaymentMethod("op1", TRUE)
  \/ processBatch("op1", "cash")
  \/ \E c \in inflight["op1"] : InsertReturnsData("op1", c)
  \/ \E name \in {"", "Alma"} : handleSubmitVendorEdit("B", name)
  \/ \E name \in {" ", "Bo"} : handleSubmitVendorCreate(name)

WriteSpec == Init /\ [][WriteNext]_vars

\* The payment form and the payment-request form of vendor A, with every
\* outcome of their inserts.
SubmitNext ==
  \/ \E str \in {"0", "0.01"} : PaymentForm_setAmount(str)
  \/ \E str \in {<<"">>, <<"tip">>} : PaymentForm_setDescription(str)
  \/ \E m \in {"card", "cash"} : PaymentForm_setPaymentMethod(m)
  \/ PaymentForm_handleSubmit("A")
  \/ PaymentForm_insertOk
  \/ PaymentForm_insertError
  \/ \E n \in {0, 1, 2} : PaymentRequestForm_setAmount(n)
  \/ \E str \in {"", " ", "ann"} : PaymentRequestForm_setPayerName(str)
  \/ PaymentRequestForm_handleSubmit("A")
  \/ PaymentRequestForm_insertOk
  \/ PaymentRequestForm_insertError
  \/ PaymentRequestForm_setSuccess

SubmitSpec == Init /\ [][SubmitNext]_vars

\* Home and the public page of vendor A re-fetching while vendor B is
\* renamed and requests of vendor A are submitted and withdrawn.  Every
\* change is announced to the subscriber before the next one is made, so
\* that there is one notification per change; the fetches overlap.
RefetchNext ==
  \/ Home_fetchVendors
  \/ Home_vendorsChanged
  \/ \E data \in fetching.vendors : Home_setVendors("op1", data)
  \/ Page_fetchPaymentRequests("A")
  \/ Page_requestsChanged("A")
  \/ \E data \in fetching.payment_requests : Page_setPaymentRequests("A", data)
  \/ \E name \in VendorNames :
       announced.vendors = vendors /\ handleSubmitVendorEdit("B", name)
  \/ /\ announced.payment_requests = RequestsOf("A")
     /\ handleSubmitRequest("A", 2, "ann")
  \/ \E r \in 1 .. MaxReq :
       /\ announced.payment_requests = RequestsOf("A")
       /\ deleteRequest("A", r)

RefetchSpec == Init /\ [][RefetchNext]_vars

\* ------------------------------------------------------------- request lifecycle
Surviving == DOMAIN payment_requests \cap DOMAIN payment_requests'

\* C1, as stated: in every reachable state a payment request has a non-null
\* processed_transaction_id if and only if its status is 'completed'.
C1_ReferenceIffCompleted ==
  \A r \in DOMAIN payment_requests :
    (payment_requests[r].processed_transaction_id # NULL)
      <=> (payment_requests[r].status = "completed")

\* C1, as the code has it: a pending request never has a processed_transaction_id, and a
\* step that gives a request a new non-null processed_transaction_id leaves
\* it 'completed'.
C1_ReferenceWrittenWithCompleted ==
  /\ [](\A r \in DOMAIN payment_requests :
          payment_requests[r].status = "pending"
            => payment_requests[r].processed_transaction_id = NULL)
  /\ [][\A r \in Surviving :
          (/\ payment_requests'[r].processed_transaction_id # NULL
           /\ payment_requests'[r].processed_transaction_id
                # payment_requests[r].processed_transaction_id)
            => payment_requests'[r].status = "completed"]_vars

\* A request completed by a commit, next to one that is still pending.
C1_Witness ==
  \E r, q \in DOMAIN payment_requests :
    /\ payment_requests[r].status = "completed"
    /\ payment_requests[r].processed_transaction_id \in DOMAIN transactions
    /\ payment_requests[q].status = "pending"

\* C2, as stated: once a request is 'completed' or 'cancelled' no step
\* changes its status.
C2_TerminalStatusFinal ==
  [][\A r \in Surviving :
       payment_requests[r].status \in {"completed", "cancelled"}
         => payment_requests'[r].status = payment_requests[r].status]_vars

\* ------------------------------------------------------------- batch commit
\* The step on which processBatch runs its last statements.
Finishes(o) == processing[o] /\ ~processing'[o]

\* The requests the request-type items of a batch come from.
Origins(batch) ==
  {batch[k].requestId : k \in {j \in DOMAIN batch : batch[j].type = "request"}}

\* The calls of o that return on this step.
Returning(o) == inflight[o] \ inflight'[o]

\* C3, as stated: when a commit finishes, every request-type item whose
\* insert returned a transaction has its request 'completed' with
\* processed_transaction_id equal to that transaction's id.
C3_CommittedRequestsCompleted ==
  [][\A o \in Operators : Finishes(o) =>
       \A k \in DOMAIN transactionIds[o] :
         (items[o][k].type = "request" /\ transactionIds[o][k] # NULL) =>
           LET r == items[o][k].requestId
           IN /\ r \in DOMAIN payment_requests'
              /\ payment_requests'[r].status = "completed"
              /\ payment_requests'[r].processed_transaction_id
                   = transactionIds[o][k]]_vars

\* C3, as the code has it: the update issued for a request-type item carries the id of
\* the transaction created for that item, and when it is applied it sets, in
\* that one step, the request's status to 'completed' and its
\* processed_transaction_id to that id; no later step of that commit changes
\* the row. An update that fails leaves the request as it was.
C3_UpdateWritesStatusAndReference ==
  [][\A o \in Operators :
       /\ \A c \in Returning(o) :
            c.kind = "update" =>
              LET item == items[o][c.item]
                  r == item.requestId
              IN /\ item.type = "request"
                 /\ c.tx = transactionIds[o][c.item]
                 /\ c.tx \in DOMAIN transactions
                 /\ transactions[c.tx].vendor_id = item.vendorId
                 /\ \/ payment_requests' = payment_requests
                    \/ /\ r \in DOMAIN payment_requests
                       /\ payment_requests' = [payment_requests EXCEPT ![r] =
                            [@ EXCEPT !.status = "completed",
                                      !.processed_transaction_id = c.tx]]
       /\ processing[o] =>
            \A r \in Surviving :
              (/\ payment_requests[r].status = "completed"
               /\ payment_requests[r].processed_transaction_id
                    \in Range(transactionIds[o]) \ {NULL})
                => payment_requests'[r] = payment_requests[r]]_vars

\* A commit with two request-type items under way: the first item's request
\* has been completed with its transaction, the second item's insert is out.
C3_Witness ==
  \E o \in Operators :
    /\ processing[o]
    /\ InsertCall(2) \in inflight[o]
    /\ items[o][1].type = "request"
    /\ items[o][1].requestId \in DOMAIN payment_requests
    /\ payment_requests[items[o][1].requestId].status = "completed"
    /\ payment_requests[items[o][1].requestId].processed_transaction_id
         = transactionIds[o][1]

\* C4: a step of a commit leaves every payment request that is not the
\* origin of a request-type item of the committed batch unchanged, and the
\* return of a manual item's insert writes no payment request and issues no
\* update.
C4_CommitFrame ==
  [][\A o \in Operators : inflight'[o] # inflight[o] =>
       LET batch == IF processing[o] THEN items[o] ELSE batchItems[o]
       IN /\ \A r \in DOMAIN payment_requests \ Origins(batch) :
               /\ r \in DOMAIN payment_requests'
               /\ payment_requests'[r] = payment_requests[r]
          /\ \A c \in Returning(o) :
               items[o][c.item].type = "manual" =>
                 /\ c.kind = "insert"
                 /\ payment_requests' = payment_requests
                 /\ \A d \in inflight'[o] : d.kind = "insert"]_vars

\* A commit of a manual item and a request-type item has completed the
\* item's request while another request, not in the batch, is pending.
C4_Witness ==
  \E o \in Operators :
    /\ processing[o]
    /\ \E k \in DOMAIN items[o] : items[o][k].type = "manual"
    /\ \E r \in Origins(items[o]) \cap DOMAIN payment_requests :
         payment_requests[r].status = "completed"
    /\ \E r \in DOMAIN payment_requests \ Origins(items[o]) :
         payment_requests[r].status = "pending"

RECURSIVE SumCreated(_, _)
SumCreated(table, ids) ==
  IF ids = <<>> THEN 0 ELSE table[Head(ids)].amount + SumCreated(table, Tail(ids))

\* C5, as stated: when a commit finishes and every write of it succeeded,
\* it has created one transaction per item, each with the item's vendor and
\* amount, the chosen method and the description "Payment from {payer}";
\* their number is the batch size and their amounts sum to the batch total.
C5_OneTransactionPerItem ==
  [][\A o \in Operators : Finishes(o) =>
       LET last == CHOOSE c \in inflight[o] : TRUE
           ids == IF last.kind = "insert"
                  THEN Append(transactionIds[o],
                              IF nextTx' # nextTx THEN nextTx ELSE NULL)
                  ELSE transactionIds[o]
           written ==
             \A k \in DOMAIN ids :
               /\ ids[k] # NULL
               /\ items[o][k].type = "request" =>
                    /\ items[o][k].requestId \in DOMAIN payment_requests'
                    /\ payment_requests'[items[o][k].requestId]
                         .processed_transaction_id = ids[k]
       IN written =>
            /\ Len(ids) = Len(items[o])
            /\ \A j, k \in DOMAIN ids : j # k => ids[j] # ids[k]
            /\ \A k \in DOMAIN ids :
                 /\ ids[k] \in DOMAIN transactions'
                 /\ transactions'[ids[k]] = TransactionOf(items[o][k], method[o])
            /\ SumCreated(transactions', ids) = SumAmounts(items[o])]_vars

\* C6: processBatch on an empty batch changes nothing: no call is issued, the
\* store is not written, processing stays false, the batch stays empty, the
\* dialog stays as it is and onComplete is not called.
C6_EmptyBatchNoOp ==
  [][\A o \in Operators, m \in Methods :
       (batchItems[o] = <<>> /\ processBatch(o, m)) =>
          /\ inflight'[o] = {} /\ inflight[o] = {}
          /\ UNCHANGED storeVars
          /\ ~processing'[o]
          /\ batchItems'[o] = <<>>
          /\ onCompleteCalls'[o] = onCompleteCalls[o]
          /\ UNCHANGED vars]_vars

\* The method dialog is open on a batch that has been emptied, after an
\* earlier commit of this operator has created a transaction.
C6_Witness ==
  \E o \in Operators :
    /\ showPaymentMethod[o]
    /\ ~processing[o]
    /\ batchItems[o] = <<>>
    /\ inflight[o] = {}
    /\ transactions # <<>>

\* C7: a failed insert does not stop the commit. The insert of item k is
\* issued once, after k-1 inserts have returned; an update is issued only for
\* an insert that returned a transaction; a failing insert writes nothing,
\* removes no transaction, and is followed by the insert of the next item if
\* there is one; the commit finishes only on the return of a call of the
\* last item.
C7_FailureDoesNotStopCommit ==
  /\ [](\A o \in Operators : \A c \in inflight[o] :
          /\ c.item \in DOMAIN items[o]
          /\ c.kind = "insert" => Len(transactionIds[o]) = c.item - 1
          /\ c.kind = "update" =>
               /\ Len(transactionIds[o]) = c.item
               /\ transactionIds[o][c.item] = c.tx
               /\ c.tx # NULL)
  /\ [][\A o \in Operators :
          /\ \A c \in Returning(o) :
               (c.kind = "insert" /\ nextTx' = nextTx) =>
                 /\ transactions' = transactions
                 /\ payment_requests' = payment_requests
                 /\ IF c.item < Len(items[o])
                    THEN /\ inflight'[o] = {InsertCall(c.item + 1)}
                         /\ processing'[o]
                         /\ transactionIds'[o] = Append(transactionIds[o], NULL)
                    ELSE Finishes(o)
          /\ Finishes(o) => \E c \in Returning(o) : c.item = Len(items[o])
          /\ processing[o] => DOMAIN transactions \subseteq DOMAIN transactions']_vars

\* The first item's insert has failed, and the second item's has been issued.
C7_Witness ==
  \E o \in Operators :
    /\ processing[o]
    /\ transactionIds[o] = <<NULL>>
    /\ InsertCall(2) \in inflight[o]

\* C9: at most one call of a commit is in flight; the insert of item k+1 is
\* in flight only when the calls of items 1..k have all returned, and the
\* transactions created so far were created in the order of the batch list.
C9_WritesSequential ==
  \A o \in Operators :
    /\ Cardinality(inflight[o]) <= 1
    /\ processing[o] <=> inflight[o] # {}
    /\ \A c \in inflight[o] :
         Len(transactionIds[o]) = IF c.kind = "insert" THEN c.item - 1 ELSE c.item
    /\ \A j, k \in DOMAIN transactionIds[o] :
         (j < k /\ transactionIds[o][j] # NULL /\ transactionIds[o][k] # NULL)
           => transactionIds[o][j] < transactionIds[o][k]

\* Two transactions created by one commit, the second item's update is out.
C9_Witness ==
  \E o \in Operators :
    /\ Len(transactionIds[o]) = 2
    /\ transactionIds[o][1] # NULL
    /\ UpdateCall(2, transactionIds[o][2]) \in inflight[o]

\* C8: a commit that has started finishes, whatever its writes return; the
\* step on which it finishes leaves the batch empty, processing false, the
\* method dialog closed and no call in flight, and is the one step of the
\* commit that calls onComplete.
C8_CommitFinishes ==
  /\ \A o \in Operators : processing[o] ~> ~processing[o]
  /\ [][\A o \in Operators :
          /\ Finishes(o) =>
               /\ batchItems'[o] = <<>>
               /\ ~showPaymentMethod'[o]
               /\ inflight'[o] = {}
               /\ onCompleteCalls[o] = 0
               /\ onCompleteCalls'[o] = 1
          /\ (~processing[o] /\ processing'[o]) =>
               /\ batchItems[o] # <<>>
               /\ onCompleteCalls'[o] = 0
          /\ (processing[o] <=> processing'[o]) =>
               onCompleteCalls'[o] = onCompleteCalls[o]]_vars

\* A commit has finished and called onComplete; it created one transaction,
\* and a request has been submitted.
C8_Witness ==
  \E o \in Operators :
    /\ ~processing[o]
    /\ onCompleteCalls[o] = 1
    /\ batchItems[o] = <<>>
    /\ ~showPaymentMethod[o]
    /\ nextTx = 2
    /\ nextReq = 2

\* ------------------------------------------------------------- toggleRequest
InBatch(batch, requestId) == \E i \in DOMAIN batch : batch[i].requestId = requestId

Others(batch, requestId) == {item \in Range(batch) : item.requestId # requestId}

\* A batch item without the vendor name it was built with.
Unnamed(item) == [item EXCEPT !.vendorName = Unknown]

\* C10, as stated: toggling a request and toggling it again leaves the set
\* of batch items as it was before the first toggle.
C10_ToggleTwiceSameItems ==
  [][\A o \in Operators, r \in 1 .. MaxReq : toggleRequest(o, r) =>
       Range(Toggled(batchItems'[o], r, requests[o][r],
                     getVendorName(o, requests[o][r].vendor_id)))
         = Range(batchItems[o])]_vars

\* C10, as the code has it: toggling a request not in the batch appends one item for
\* it, toggling a request in the batch removes its item, presence being
\* decided by the items' requestId; toggling twice leaves the other items as
\* they were and the batch with an item for the request exactly if it had
\* one, equal to the old one except for the vendor name, which is taken from
\* the vendors the component holds at the second toggle.
C10_ToggleTwiceSameRequests ==
  [][\A o \in Operators, r \in 1 .. MaxReq : toggleRequest(o, r) =>
       LET vendorName == getVendorName(o, requests[o][r].vendor_id)
           before == batchItems[o]
           once == batchItems'[o]
           twice == Toggled(once, r, requests[o][r], vendorName)
       IN /\ InBatch(once, r) <=> ~InBatch(before, r)
          /\ ~InBatch(before, r) =>
               once = Append(before, RequestItem(r, requests[o][r], vendorName))
          /\ InBatch(before, r) =>
               /\ Range(once) = Others(before, r)
               /\ Len(once) = Len(before) - 1
          /\ Others(twice, r) = Others(before, r)
          /\ Len(twice) = Len(before)
          /\ {Unnamed(item) : item \in Range(twice)}
               = {Unnamed(item) : item \in Range(before)}]_vars

\* The batch holds a manual item and an item of a request whose vendor has
\* been renamed, and the component has the new name.
C10_Witness ==
  \E o \in Operators : \E i, j \in DOMAIN batchItems[o] :
    /\ batchItems[o][i].type = "manual"
    /\ batchItems[o][j].type = "request"
    /\ batchItems[o][j].requestId \in pendingRequests(o)
    /\ batchItems[o][j].vendorName # getVendorName(o, batchItems[o][j].vendorId)

\* ------------------------------------------------------------- batch editing
RECURSIVE SumOver(_, _)
SumOver(batch, S) ==
  IF S = {} THEN 0
  ELSE LET k == CHOOSE i \in S : TRUE
       IN batch[k].amount + SumOver(batch, S \ {k})

Swapped(batch, i, j) ==
  [k \in DOMAIN batch |->
     IF k = i THEN batch[j] ELSE IF k = j THEN batch[i] ELSE batch[k]]

OfType(batch, type) == {k \in DOMAIN batch : batch[k].type = type}

Blank(payerName) == payerName \in {"", " "}

\* C12: addManualPayment with no vendor selected, an amount of zero or less
\* or a blank payer name changes neither the batch nor the form; otherwise
\* it appends one manual item with the vendor and amount of the form and
\* the payer name without its surrounding blanks, and resets the form.
C12_ManualItemValidated ==
  [][\A o \in Operators, now \in Times : addManualPayment(o, now) =>
       IF \/ manualVendorId[o] = ""
          \/ manualAmount[o] <= 0
          \/ Blank(manualPayerName[o])
       THEN UNCHANGED <<batchItems, formVars>>
       ELSE LET added == batchItems'[o][Len(batchItems[o]) + 1]
            IN /\ Len(batchItems'[o]) = Len(batchItems[o]) + 1
               /\ SubSeq(batchItems'[o], 1, Len(batchItems[o])) = batchItems[o]
               /\ added.type = "manual"
               /\ added.requestId = NULL
               /\ added.vendorId = manualVendorId[o]
               /\ added.amount = manualAmount[o]
               /\ added.payerName =
                    (IF manualPayerName[o] = " bob " THEN "bob"
                     ELSE manualPayerName[o])
               /\ manualVendorId'[o] = ""
               /\ manualAmount'[o] = 0
               /\ manualPayerName'[o] = ""
               /\ ~showAddManual'[o]]_vars

\* A manual item typed as " bob " is in the batch, and the form is open
\* again holding a vendor, an amount and a payer name of one blank.
C12_Witness ==
  \E o \in Operators :
    /\ \E k \in DOMAIN batchItems[o] :
         batchItems[o][k].type = "manual" /\ batchItems[o][k].payerName = "bob"
    /\ showAddManual[o]
    /\ manualVendorId[o] # ""
    /\ manualAmount[o] > 0
    /\ manualPayerName[o] = " "

\* C13, as stated: removeFromBatch with the id of an item of the batch takes
\* exactly one item out of the list, the one with that id, and leaves the
\* other items where and as they were.
C13_RemoveExactlyOne ==
  [][\A o \in Operators :
       \A id \in {batchItems[o][i].id : i \in DOMAIN batchItems[o]} :
         removeFromBatch(o, id) =>
           \E k \in DOMAIN batchItems[o] :
             /\ batchItems[o][k].id = id
             /\ batchItems'[o] =
                  SubSeq(batchItems[o], 1, k - 1)
                    \o SubSeq(batchItems[o], k + 1, Len(batchItems[o]))]_vars

\* ------------------------------------------------------------- store rows
\* C14, as stated: a pending request that the operator cancels, or that the
\* payer cancels on the public vendor page, stays in the table with status
\* 'cancelled' and no processed_transaction_id.
C14_CancelledRowRemains ==
  [][\A r \in DOMAIN payment_requests :
       (/\ payment_requests[r].status = "pending"
        /\ \/ \E o \in Operators : handleCancel(o, r)
           \/ \E v \in VendorIds : deleteRequest(v, r))
         => /\ r \in DOMAIN payment_requests'
            /\ payment_requests'[r].status = "cancelled"
            /\ payment_requests'[r].processed_transaction_id = NULL]_vars

\* C15: a row that appears in payment_requests is 'pending' with a null
\* processed_transaction_id, and a submission adds exactly one such row, for
\* the vendor of the page, with the amount as stored and the trimmed payer
\* name.
C15_SubmittedRequestPending ==
  [][/\ \A r \in DOMAIN payment_requests' \ DOMAIN payment_requests :
          /\ payment_requests'[r].status = "pending"
          /\ payment_requests'[r].processed_transaction_id = NULL
     /\ \A v \in VendorIds, a \in 1 .. MaxAmount, p \in {"ann"} :
          handleSubmitRequest(v, a, p) =>
            /\ DOMAIN payment_requests' = DOMAIN payment_requests \cup {nextReq}
            /\ nextReq \notin DOMAIN payment_requests
            /\ payment_requests'[nextReq].vendor_id = v
            /\ payment_requests'[nextReq].status = "pending"
            /\ payment_requests'[nextReq].processed_transaction_id = NULL
            /\ \A r \in DOMAIN payment_requests :
                 payment_requests'[r] = payment_requests[r]]_vars

\* A second request has been submitted after the first was completed: it is
\* pending and has no reference.
C15_Witness ==
  /\ DOMAIN payment_requests = {1, 2}
  /\ payment_requests[1].status = "completed"
  /\ payment_requests[2].status = "pending"
  /\ payment_requests[2].processed_transaction_id = NULL

\* C16: every transaction and every payment request is of a vendor that
\* exists, and every processed_transaction_id is null or the id of a
\* transaction that exists; the deletion of a vendor removes the rows of that
\* vendor from both tables and no other row, and the deletion of a
\* transaction removes no payment request and sets to null exactly the
\* references to that transaction.
C16_NoDanglingReference ==
  /\ [](/\ \A t \in DOMAIN transactions :
            transactions[t].vendor_id \in DOMAIN vendors
        /\ \A r \in DOMAIN payment_requests :
            /\ payment_requests[r].vendor_id \in DOMAIN vendors
            /\ payment_requests[r].processed_transaction_id
                 \in DOMAIN transactions \cup {NULL})
  /\ [][/\ \A v \in DOMAIN vendors \ DOMAIN vendors' :
            /\ DOMAIN transactions' =
                 {t \in DOMAIN transactions : transactions[t].vendor_id # v}
            /\ DOMAIN payment_requests' =
                 {r \in DOMAIN payment_requests :
                    payment_requests[r].vendor_id # v}
        /\ (/\ DOMAIN transactions' # DOMAIN transactions
            /\ DOMAIN transactions' \subseteq DOMAIN transactions
            /\ DOMAIN vendors' = DOMAIN vendors) =>
             \A r \in DOMAIN payment_requests :
               /\ r \in DOMAIN payment_requests'
               /\ payment_requests'[r] =
                    IF payment_requests[r].processed_transaction_id
                         \in DOMAIN transactions' \cup {NULL}
                    THEN payment_requests[r]
                    ELSE [payment_requests[r] EXCEPT
                            !.processed_transaction_id = NULL]]_vars

\* Vendor B and its transaction have been deleted, and so has the
\* transaction of the completed request of vendor A: the request is still
\* there, completed, with no reference.
C16_Witness ==
  \E r \in DOMAIN payment_requests :
    /\ DOMAIN vendors = {"A"}
    /\ payment_requests[r].status = "completed"
    /\ payment_requests[r].processed_transaction_id = NULL
    /\ nextTx = 3
    /\ transactions = <<>>

\* ------------------------------------------------------------- calculator
Pending == operator # "" /\ previousNumber # <<>>

\* C17: pressing an operator while an operator and a typed operand are
\* pending makes the result of the pending expression the left operand,
\* reports it, and leaves the pressed operator pending with nothing typed;
\* so with 10 + 5 made the left operand 15 by pressing x, typing 2 reports
\* 30.
C17_ChainLeftToRight ==
  /\ [][\A op \in Operator :
          (handleOperator(op) /\ Pending /\ currentNumber # <<>>) =>
            /\ previousNumber' =
                 <<calculate(previousNumber[1], operator,
                             ParseOrZero(currentNumber))>>
            /\ reported' = previousNumber'
            /\ operator' = op
            /\ currentNumber' = <<>>]_vars
  /\ []((/\ previousNumber = <<1500>>
         /\ operator = "*"
         /\ currentNumber = <<"2">>
         /\ reported # <<>>) => reported = <<3000>>)

\* 10, +, 5, x, 2 have been entered: 30 is reported.
C17_Witness ==
  /\ previousNumber = <<1500>>
  /\ operator = "*"
  /\ currentNumber = <<"2">>
  /\ reported = <<3000>>
  /\ value = 3000

\* A step evaluating a division by zero: an input whose number is 0, empty
\* or unreadable, or = or a chained operator on such a number.
DividesByZero ==
  /\ Pending
  /\ operator = "/"
  /\ \/ \E inputValue \in InputValues :
          /\ handleNumberInput(inputValue)
          /\ ParseOrZero(CleanValue(inputValue)) = 0
     \/ handleEquals /\ ParseOrZero(currentNumber) = 0
     \/ \E op \in Operator :
          /\ handleOperator(op)
          /\ currentNumber # <<>>
          /\ ParseOrZero(currentNumber) = 0

\* C18, as stated: every evaluation of a division by zero reports 0 and
\* leaves 0.00 displayed.
C18_DivisionByZeroShownAsZero ==
  [][DividesByZero =>
       /\ reported' = <<0>>
       /\ displayed' = <<"0", ".", "0", "0">>]_vars

\* C18, as the code has it: every evaluation of a division by zero reports
\* the number 0; while the divisor is being typed the expression line shows
\* the result as 0.00, after = the display shows 0, and after a chained
\* operator 0 is the left operand and nothing is typed.
C18_DivisionByZeroIsZero ==
  /\ [][DividesByZero => (reported' = <<0>> /\ value' = 0)]_vars
  /\ [][(Pending /\ operator = "/") =>
          /\ \A inputValue \in InputValues :
               (/\ handleNumberInput(inputValue)
                /\ ParseOrZero(CleanValue(inputValue)) = 0) =>
                 /\ expression' # <<>>
                 /\ displayed' = <<"0", ".", "0", "0">>
          /\ (handleEquals /\ ParseOrZero(currentNumber) = 0) =>
               /\ expression' = <<>>
               /\ displayed' = <<"0">>
          /\ \A op \in Operator :
               (/\ handleOperator(op)
                /\ currentNumber # <<>>
                /\ ParseOrZero(currentNumber) = 0) =>
                 /\ previousNumber' = <<0>>
                 /\ displayed' = <<>>]_vars
  /\ []((/\ expression # <<>>
         /\ operator = "/"
         /\ ParseOrZero(currentNumber) = 0) =>
          displayed = <<"0", ".", "0", "0">>)

\* 10 / with a divisor that reads as nothing: 0 is reported and the
\* expression line shows 0.00.
C18_Witness ==
  /\ previousNumber = <<1000>>
  /\ operator = "/"
  /\ currentNumber = <<>>
  /\ showExpression
  /\ reported = <<0>>
  /\ displayed = <<"0", ".", "0", "0">>

\* C19: Clear leaves no operator, no left operand and an empty current
\* number, hides the expression, and reports 0 in that step.
C19_ClearResets ==
  [][handleClear =>
       /\ operator' = ""
       /\ previousNumber' = <<>>
       /\ currentNumber' = <<>>
       /\ ~showExpression'
       /\ reported' = <<0>>
       /\ value' = 0]_vars

\* Everything is cleared and 0 reported, with the input focused as Clear
\* leaves it.
C19_Witness ==
  /\ operator = ""
  /\ previousNumber = <<>>
  /\ currentNumber = <<>>
  /\ reported = <<0>>
  /\ value = 0
  /\ isFocused

\* The number a cleaned input writes.
Typed(cleanValue) ==
  CASE cleanValue = <<"2">> -> 200
    [] cleanValue = <<"5">> -> 500
    [] cleanValue = <<"1", "0">> -> 1000
    [] cleanValue = <<"1", ".", "5">> -> 150
    [] OTHER -> 0

\* C20: every input to the number field is reported in that step: with no
\* operator pending the number typed, 0 if there is none to read, and with
\* an operator pending the result of applying it to the left operand and
\* that number; an operator is pending exactly if there is a left operand.
C20_InputReported ==
  /\ [](operator # "" <=> previousNumber # <<>>)
  /\ [][\A inputValue \in InputValues : handleNumberInput(inputValue) =>
          LET typed == Typed(currentNumber')
          IN /\ currentNumber' = CleanValue(inputValue)
             /\ reported' =
                  IF operator = "" THEN <<typed>>
                  ELSE <<calculate(previousNumber[1], operator, typed)>>
             /\ value' = reported'[1]]_vars

\* 2 - 5 has been typed: -3 is reported.
C20_Witness ==
  /\ previousNumber = <<200>>
  /\ operator = "-"
  /\ currentNumber = <<"5">>
  /\ reported = <<-300>>

\* ------------------------------------------------------------- entry forms
\* C21: every transaction and every payment request of the store has a
\* positive amount, and every vendor a name that is not blank.
C21_NoInvalidRowWritten ==
  /\ \A t \in DOMAIN transactions : transactions[t].amount > 0
  /\ \A r \in DOMAIN payment_requests : payment_requests[r].amount > 0
  /\ \A v \in DOMAIN vendors : Trim(vendors[v]) # ""

\* C22: when the insert of the payment form or of the payment-request form
\* returns having written nothing, the form shows its failure message, is
\* no longer loading, keeps the entered values and does not call its
\* callback; when it returns with the row written, the entered values are
\* back at their defaults, no error is shown and the callback is called
\* once; no other step calls a callback.
C22_SubmitOutcome ==
  /\ [][(paymentInsert # <<>> /\ paymentInsert' = <<>>) =>
          IF transactions' = transactions
          THEN /\ paymentForm' = [paymentForm EXCEPT !.loading = FALSE,
                                                    !.error = FailedToAdd]
               /\ paymentForm.loading
               /\ onPaymentAdded' = onPaymentAdded
          ELSE /\ paymentForm' = [amount |-> "", description |-> <<"">>,
                                  paymentMethod |-> "card", loading |-> FALSE,
                                  error |-> ""]
               /\ onPaymentAdded' = onPaymentAdded + 1]_vars
  /\ [][(requestInsert # <<>> /\ requestInsert' = <<>>) =>
          IF payment_requests' = payment_requests
          THEN /\ paymentRequestForm' =
                    [paymentRequestForm EXCEPT !.loading = FALSE,
                                               !.error = FailedToSubmit]
               /\ paymentRequestForm.loading
               /\ onRequestSubmitted' = onRequestSubmitted
          ELSE /\ paymentRequestForm' =
                    [amount |-> 0, payerName |-> "", loading |-> FALSE,
                     success |-> TRUE, error |-> ""]
               /\ onRequestSubmitted' = onRequestSubmitted + 1]_vars
  /\ [][/\ ~(paymentInsert # <<>> /\ paymentInsert' = <<>>) =>
             onPaymentAdded' = onPaymentAdded
        /\ ~(requestInsert # <<>> /\ requestInsert' = <<>>) =>
             onRequestSubmitted' = onRequestSubmitted]_vars

\* The payment form has failed once and kept what was entered, and the
\* request form has succeeded once.
C22_Witness ==
  /\ paymentForm = [amount |-> "0.01", description |-> <<"tip">>,
                    paymentMethod |-> "cash", loading |-> FALSE,
                    error |-> FailedToAdd]
  /\ onPaymentAdded = 0
  /\ transactions = <<>>
  /\ paymentRequestForm.success
  /\ paymentRequestForm.amount = 0
  /\ onRequestSubmitted = 1
  /\ DOMAIN payment_requests = {1}

\* ------------------------------------------------------------- requests and batches
\* The transactions created on behalf of request r, where every request has
\* its own amount and nothing else creates or edits transactions.
CreatedFor(r) ==
  {t \in DOMAIN transactions : transactions[t].amount = 4 * r}

\* C25: at most one transaction is ever created on behalf of a request,
\* whoever commits it and whatever has happened to it since it was selected.
C25_FulfilledAtMostOnce ==
  \A r \in 1 .. MaxReq : Cardinality(CreatedFor(r)) <= 1

\* C26: every request-type item of a batch refers to a request that is
\* pending in the requests the component was last handed.
C26_BatchItemsPending ==
  \A o \in Operators :
    \A i \in DOMAIN batchItems[o] :
      batchItems[o][i].type = "request" =>
        batchItems[o][i].requestId \in pendingRequests(o)

\* C27: a batch holds at most one item per request, and the ids of its
\* items are pairwise distinct.
C27_ItemIdsDistinct ==
  \A o \in Operators :
    \A i, j \in DOMAIN batchItems[o] :
      i # j =>
        /\ batchItems[o][i].id # batchItems[o][j].id
        /\ batchItems[o][i].type = "request" =>
             batchItems[o][i].requestId # batchItems[o][j].requestId

\* C30: no commit starts while one is processing; the inserts of a commit
\* are issued one per item of the batch it started with, in order, the
\* commit finishing after the last; and an item that is in the batch when
\* the commit finishes without having been part of it stays in the batch.
C30_CommitNotReentrant ==
  [][\A o \in Operators :
       /\ processing[o] => items'[o] \in {items[o], <<>>}
       /\ \A c \in inflight'[o] \ inflight[o] :
            c.kind = "insert" =>
              IF processing[o]
              THEN \E d \in Returning(o) : c.item = d.item + 1
              ELSE c.item = 1 /\ items'[o] = batchItems[o]
       /\ Finishes(o) =>
            /\ \E d \in Returning(o) : d.item = Len(items[o])
            /\ \A i \in DOMAIN batchItems[o] :
                 batchItems[o][i] \in Range(items[o])
                   \/ batchItems[o][i] \in Range(batchItems'[o])]_vars

\* ------------------------------------------------------------- calculator state
\* C24: an operator is pending exactly if there is a left operand, of which
\* there is at most one; = pressed with no operator pending leaves the
\* numbers, the operator, the expression line and the parent's value as
\* they are and reports nothing.
C24_OnePendingOperation ==
  /\ [](/\ operator # "" <=> previousNumber # <<>>
        /\ Len(previousNumber) <= 1
        /\ operator \in Operator \cup {""})
  /\ [][(handleEquals /\ operator = "") =>
          /\ reported' = <<>>
          /\ UNCHANGED <<currentNumber, previousNumber, operator,
                         showExpression, value>>]_vars

\* 5 is typed, nothing is pending, and the last step reported nothing.
C24_Witness ==
  /\ currentNumber = <<"5">>
  /\ operator = ""
  /\ previousNumber = <<>>
  /\ value = 500
  /\ reported = <<>>
  /\ isFocused

\* C28: the parent's value is what the calculator stands for: the typed
\* number with no operator pending, the pending operator applied to the
\* left operand and the typed number otherwise, and with nothing typed the
\* left operand alone (or the operator applied to it and 0).
C28_ParentHoldsCalculatorValue ==
  IF operator = "" \/ previousNumber = <<>>
  THEN value = ParseOrZero(currentNumber)
  ELSE IF currentNumber = <<>>
  THEN value \in {previousNumber[1], calculate(previousNumber[1], operator, 0)}
  ELSE value = calculate(previousNumber[1], operator,
                         ParseOrZero(currentNumber))

\* C29: an operator pressed while an operator is pending and nothing is
\* typed replaces the pending operator and keeps the left operand.
C29_OperatorReplaced ==
  [][\A op \in Operator :
       (handleOperator(op) /\ Pending /\ currentNumber = <<>>) =>
         /\ operator' = op
         /\ previousNumber' = previousNumber]_vars

\* ------------------------------------------------------------- re-fetches
\* C23: whenever every change of a table has been announced to its
\* subscriber and no fetch of the table is out, the component's snapshot
\* of the table is the table (for the public page: the rows of its vendor).
C23_QuiescentSnapshotCurrent ==
  /\ (announced.vendors = vendors /\ fetching.vendors = {}) =>
       vendorsProp["op1"] = vendors
  /\ (/\ announced.payment_requests = RequestsOf("A")
      /\ fetching.payment_requests = {}) =>
       paymentRequests["A"] = RequestsOf("A")

====
